---- MODULE Spec2Model ----
(***************************************************************************)
(* Model of sqlite_test_utils::Sqlite3Process (src/src/sqlite3process.rs): *)
(* a session that owns a spawned sqlite3 child process, frames commands    *)
(* and responses over its pipes with a sentinel statement, and shuts the   *)
(* child down on Drop with a timeout-bounded poll loop.                    *)
(*                                                                         *)
(* A line of text is a sequence of tokens, so that str::contains is a      *)
(* search for a contiguous run of tokens and not a tag on the line.        *)
(*                                                                         *)
(* The caller and the child are two processes: execute and drop advance    *)
(* one pipe operation at a time, and the child consumes its input, prints  *)
(* and ends in steps of its own, or never.  Variables that only record     *)
(* what happened (wrote, reads, ioFault, seen, lastLine, sawEof, allOk,    *)
(* segment, lastSeg, markers, collided, kills, stateAtRun, exitWay) are    *)
(* read by the properties and never by the actions that model the code.    *)
(***************************************************************************)
EXTENDS Integers, Sequences, FiniteSets, TLC

VARIABLES
    child,          \* Sqlite3Process.child : "None" | "Some"
    stdin,          \* Sqlite3Process.stdin : "None" | "Some"
    stdout,         \* Sqlite3Process.stdout : "None" | "Some"
    stderr,         \* Sqlite3Process.stderr : "None" | "Some"
    newResult,      \* what Sqlite3Process::new returned: "none" | "ok" | "err"
    spawned,        \* what the launch handed over: [proc, stdin, stdout, stderr]
    pc,             \* position of the caller inside execute
    sql,            \* argument of the execute call in progress
    output,         \* local `output` of execute
    found_marker,   \* local `found_marker` of execute
    result,         \* what the last finished execute call returned
    calls,          \* execute calls that passed the two handle checks
    wrote,          \* lines the call in progress has written to the child
    reads,          \* read_line calls the call in progress has made
    ioFault,        \* step of the last call at which a pipe operation failed ("" if none)
    seen,           \* the stdin and stdout fields as the last call found them
    lastLine,       \* the line the last read_line returned
    allOk,          \* every finished execute call so far returned Ok
    procState,      \* the child: "none" | "running" | "exited_ok" | "exited_err" | "killed"
    echo,           \* the child echoes its input lines (sqlite3 ".echo on")
    stdinPipe,      \* lines written to the child and not yet consumed by it
    stdoutPipe,     \* lines emitted by the child and not yet read
    segment,        \* lines the child emitted since its last end marker
    lastSeg,        \* lines the child emitted between its last two end markers
    markers,        \* end markers the child has emitted
    collided,       \* the child printed a line holding the marker that is no end marker
    dropPc,         \* position inside Drop::drop
    stderr_output,  \* local `stderr_output` of drop: "" | "text"
    elapsed,        \* start.elapsed() in milliseconds
    polled,         \* outcome of the last child.try_wait()
    kills,          \* child.kill() calls made so far
    killsThisRun,   \* child.kill() calls of the shutdown run in progress
    logged,         \* drop logged the "exited with error" warning
    panicMsg,       \* message of the panic in flight (<<>> if none)
    dropRuns,       \* shutdown sequences started
    sawEof,         \* a read_line of the last call returned Ok(0)
    exitWay,        \* how the owning scope was left: "" | "return" | "unwind"
    stateAtRun,     \* procState when the shutdown run in progress started
    op,             \* public operation the caller is inside ("none" between calls)
    number,         \* loop variable `number` of create_dummy_data (0 at its CREATE)
    flushes,        \* flushes the call in progress has completed
    lastOp,         \* public operation the last finished execute call was made from
    table,          \* the child's database: table `test` (see NewDb)
    hist,           \* what the child did with each command a caller of execute passed
    sleptAt,        \* start.elapsed() at the last thread::sleep of drop (-1 if none)
    steps,          \* steps the shutdown run in progress has taken, in order
    hasNotes,       \* the schema has a `notes` table
    notes,          \* rows of `notes`, in rowid order: [id, text]
    inTxn,          \* the connection is inside a transaction (BEGIN without COMMIT)
    lastRowid,      \* Connection::last_insert_rowid()
    libRet,         \* what the last fixture helper returned: [op, kind, id]
    initRows,       \* row_count of the init_test_db that succeeded (-1 if none)
    inserted,       \* insert_test_db calls that succeeded since
    noteRet         \* the last create_note call: [kind, word_count, note]

vars == <<child, stdin, stdout, stderr, newResult, spawned, pc, sql, output,
          found_marker, result, calls, wrote, reads, ioFault, seen, lastLine,
          allOk, procState, echo, stdinPipe, stdoutPipe, segment, lastSeg, markers,
          collided, dropPc, stderr_output, elapsed, polled, kills,
          killsThisRun, logged, panicMsg, dropRuns, sawEof, exitWay,
          stateAtRun, op, number, flushes, lastOp, table, hist, sleptAt, steps,
          hasNotes, notes, inTxn, lastRowid, libRet, initRows, inserted, noteRet>>

sessionVars == <<child, stdin, stdout, stderr, newResult, spawned>>
execVars == <<pc, sql, output, found_marker, result, calls, wrote, reads,
              ioFault, seen, lastLine, allOk, sawEof, op, number, flushes, lastOp>>
procVars == <<procState, echo, stdinPipe, stdoutPipe, segment, lastSeg,
              markers, collided, table, hist>>
dropVars == <<dropPc, stderr_output, elapsed, polled, kills, killsThisRun,
              logged, dropRuns, exitWay, stateAtRun, sleptAt, steps>>
libVars == <<hasNotes, notes, inTxn, lastRowid, libRet, initRows, inserted, noteRet>>

----------------------------------------------------------------------------
(* Bounds of the model *)

\* execute calls made on a session in use, and on a session that is followed
\* through its shutdown.
MaxCalls == 3
MaxLifeCalls == 1
\* shutdown runs on one session (the second is a repeated run).
MaxDropRuns == 2

----------------------------------------------------------------------------
(* Text *)

\* str::contains: `pat` occurs in `line` as a contiguous run of tokens.
Contains(line, pat) ==
    \E i \in 1..(Len(line) - Len(pat) + 1) :
        \A j \in 1..Len(pat) : line[i + j - 1] = pat[j]

\* The two patterns execute searches each line for.
MARKER_END == <<"MARKER_END">>
SelectMarker == <<"SELECT '", "MARKER_END">>

\* writeln!: the text followed by a line terminator.
Writeln(text) == Append(text, "\n")

\* Statements sent to the child.
SentinelStmt == <<"SELECT '", "MARKER_END", "';">>
ExitStmt == <<".exit">>
EchoOnStmt == <<".echo on">>

\* The line sqlite3 prints for the sentinel statement, and its echo of it.
MarkerLine == <<"MARKER_END", "\n">>
SentinelEcho == Writeln(SentinelStmt)

RECURSIVE Flatten(_)
Flatten(lines) ==
    IF lines = <<>> THEN <<>> ELSE Head(lines) \o Flatten(Tail(lines))

\* Lines a command can print: two ordinary rows, and one row whose own text
\* holds the marker.
Row1 == <<"row1", "\n">>
Row2 == <<"row2", "\n">>
CollisionLine == <<"x", "MARKER_END", "y", "\n">>
OutLines == {Row1, Row2, CollisionLine}

\* What one command can print: nothing, rows in either order, and a row with
\* the marker in it before or after an ordinary row.
Outputs ==
    {<<>>, <<Row1>>, <<Row1, Row2>>, <<Row2, Row1>>,
     <<Row1, CollisionLine>>, <<CollisionLine, Row2>>}

\* Statements the callers of execute pass.
WalStmt == <<"PRAGMA journal_mode=WAL;">>
NoCheckpointStmt == <<"PRAGMA wal_autocheckpoint=0;">>
Commands == {<<"SELECT 1;">>, EchoOnStmt}

\* The statements of create_dummy_data; format! writes `number` in decimal.
CreateTableStmt == <<"CREATE TABLE test (id INTEGER PRIMARY KEY, value TEXT);">>

\* InsertStmt with the index counted from zero.
InsertStmtFromZero(n) ==
    <<"INSERT INTO test (value) VALUES ('", "Hello, World! ", ToString(n - 1), "');">>

InsertStmt(n) ==
    <<"INSERT INTO test (value) VALUES ('", "Hello, World! ", ToString(n), "');">>
DummyFirst == 1
DummyEnd == 1000

\* The child's reading of an INSERT INTO test: the value between the quotes.
IsInsert(stmt) == Len(stmt) = 4 /\ stmt[1] = InsertStmt(DummyFirst)[1]
InsertedValue(stmt) == <<stmt[2], stmt[3]>>

\* The database the child is opened on: a new file, or one in which table
\* `test` exists already and holds a row. Of the table are kept the number of
\* its rows, the values of the rows with the smallest and the largest rowid,
\* and how many statements on it the child has run and has rejected.
NewDb ==
    [exists |-> FALSE, count |-> 0, first |-> <<>>, last |-> <<>>, ran |-> 0, failed |-> 0]
UsedDb ==
    [exists |-> TRUE, count |-> 1, first |-> <<"old">>, last |-> <<"old">>,
     ran |-> 0, failed |-> 0]

\* CREATE TABLE test: an error if the table exists.
CreateTable(t) ==
    IF t.exists
    THEN [t EXCEPT !.ran = @ + 1, !.failed = @ + 1]
    ELSE [t EXCEPT !.exists = TRUE, !.ran = @ + 1]

\* INSERT INTO test (value): the row gets the rowid after the largest, and
\* is row 1 of an empty table; an error if there is no table.
InsertValue(t, v) ==
    IF t.exists
    THEN [t EXCEPT !.count = @ + 1, !.last = v, !.ran = @ + 1,
                   !.first = IF t.count = 0 THEN v ELSE @]
    ELSE [t EXCEPT !.ran = @ + 1, !.failed = @ + 1]

\* What the child did with one command: the lines it printed on its output,
\* and whether the statement succeeded (an error goes to stderr).
Ran(out, ok) == [out |-> out, ok |-> ok]

NoResult == [kind |-> "none", msg |-> "", output |-> <<>>]
Ok(out) == [kind |-> "ok", msg |-> "", output |-> out]
Err(m) == [kind |-> "err", msg |-> m, output |-> <<>>]

\* What a fixture helper of lib.rs returned.
NoLibRet == [op |-> "none", kind |-> "none", id |-> 0]

\* What a call of create_note came to: a String, or the panic of the thread.
NoteRet(k, word_count, note) == [kind |-> k, word_count |-> word_count, note |-> note]
NoNoteRet == NoteRet("none", 0, <<>>)

----------------------------------------------------------------------------
(* Construction *)

Init ==
    /\ child = "None" /\ stdin = "None" /\ stdout = "None" /\ stderr = "None"
    /\ newResult = "none"
    /\ spawned = [proc |-> FALSE, stdin |-> FALSE, stdout |-> FALSE, stderr |-> FALSE]
    /\ pc = "idle" /\ sql = <<>> /\ output = <<>> /\ found_marker = FALSE
    /\ result = NoResult /\ calls = 0 /\ wrote = <<>> /\ reads = 0
    /\ ioFault = "" /\ seen = <<"Some", "Some">> /\ lastLine = <<>>
    /\ allOk = TRUE /\ sawEof = FALSE /\ op = "none"
    /\ procState = "none" /\ echo = FALSE
    /\ stdinPipe = <<>> /\ stdoutPipe = <<>>
    /\ segment = <<>> /\ lastSeg = <<>> /\ markers = 0 /\ collided = FALSE
    /\ dropPc = "none" /\ stderr_output = "" /\ elapsed = 0 /\ polled = "none"
    /\ kills = 0 /\ killsThisRun = 0 /\ logged = FALSE /\ panicMsg = <<>>
    /\ dropRuns = 0 /\ exitWay = "" /\ stateAtRun = "none"
    /\ number = 0 /\ flushes = 0 /\ lastOp = "none"
    /\ table = NewDb /\ hist = <<>>
    /\ sleptAt = -1 /\ steps = <<>>
    /\ hasNotes = FALSE /\ notes = <<>> /\ inTxn = FALSE /\ lastRowid = 0
    /\ libRet = NoLibRet
    /\ initRows = -1 /\ inserted = 0
    /\ noteRet = NoNoteRet

\* The handle fields of the value Sqlite3Process::new builds, given what the
\* launch handed over.
NewHandles(h) ==
    [child |-> "Some", stdin |-> "Some", stdout |-> "Some",
     stderr |-> IF h.stderr THEN "Some" ELSE "None"]

\* Whether Sqlite3Process::new returns Ok, given what the launch handed over.
NewSucceeds(h) == h.proc /\ h.stdin /\ h.stdout

\* Sqlite3Process::new
New ==
    /\ newResult = "none"
    /\ \E launched \in BOOLEAN, hin \in BOOLEAN, hout \in BOOLEAN, herr \in BOOLEAN :
        LET h == [proc |-> launched, stdin |-> launched /\ hin,
                  stdout |-> launched /\ hout, stderr |-> launched /\ herr]
        IN  /\ spawned' = h
            /\ procState' = IF launched THEN "running" ELSE "none"
            /\ IF NewSucceeds(h)
               THEN /\ newResult' = "ok"
                    /\ child' = NewHandles(h).child
                    /\ stdin' = NewHandles(h).stdin
                    /\ stdout' = NewHandles(h).stdout
                    /\ stderr' = NewHandles(h).stderr
               ELSE /\ newResult' = "err"
                    /\ UNCHANGED <<child, stdin, stdout, stderr>>
    /\ UNCHANGED <<table, hist, libVars, execVars, echo, stdinPipe, stdoutPipe, segment, lastSeg,
                   markers, collided, dropVars, panicMsg>>

Alive == newResult = "ok" /\ dropPc = "none" /\ panicMsg = <<>>

\* Option::take on a handle field, as the crate's tests do with stdin and stderr.
TakeStdin ==
    /\ Alive /\ pc = "idle" /\ stdin = "Some"
    /\ stdin' = "None"
    /\ UNCHANGED <<libVars, child, stdout, stderr, newResult, spawned, execVars, procVars, dropVars, panicMsg>>

TakeStdout ==
    /\ Alive /\ pc = "idle" /\ stdout = "Some"
    /\ stdout' = "None"
    /\ UNCHANGED <<libVars, child, stdin, stderr, newResult, spawned, execVars, procVars, dropVars, panicMsg>>

TakeStderr ==
    /\ Alive /\ pc = "idle" /\ stderr = "Some"
    /\ stderr' = "None"
    /\ UNCHANGED <<libVars, child, stdin, stdout, newResult, spawned, execVars, procVars, dropVars, panicMsg>>


----------------------------------------------------------------------------
(* execute *)

UnwrapPanic == <<"called Result::unwrap() on an Err value">>

\* HandleCheck with the stdout check left out.
HandleCheckStdinOnly(hin, hout) ==
    IF hin = "None" THEN "stdin is not available" ELSE ""

\* Which of the two handle checks at the head of execute fails, if any.
HandleCheck(hin, hout) ==
    IF hin = "None" THEN "stdin is not available"
    ELSE IF hout = "None" THEN "stdout is not available"
    ELSE ""

\* Return with the value dropped in place of the unwrap: no panic, and
\* create_dummy_data goes on to its next statement whatever the value is.
ReturnIgnoresErr(o, res) ==
    /\ result' = res
    /\ allOk' = (allOk /\ res.kind = "ok")
    /\ lastOp' = o
    /\ pc' = IF o = "create_dummy_data" THEN "next_stmt" ELSE "idle"
    /\ op' = IF o = "create_dummy_data" THEN o ELSE "none"
    /\ output' = <<>>
    /\ found_marker' = FALSE
    /\ sql' = <<>>
    /\ panicMsg' = panicMsg

\* The end of an execute call made from operation `o`: the value goes to the
\* caller; enable_wal_mode, disable_wal_checkpointing and create_dummy_data
\* unwrap it, and create_dummy_data goes on to its next statement.
Return(o, res) ==
    /\ result' = res
    /\ allOk' = (allOk /\ res.kind = "ok")
    /\ lastOp' = o
    /\ pc' = IF o = "create_dummy_data" /\ res.kind = "ok" THEN "next_stmt" ELSE "idle"
    /\ op' = IF o = "create_dummy_data" /\ res.kind = "ok" THEN o ELSE "none"
    /\ output' = <<>>
    /\ found_marker' = FALSE
    /\ sql' = <<>>
    /\ panicMsg' = IF o # "execute" /\ res.kind = "err" THEN UnwrapPanic ELSE panicMsg

\* Entry of execute(s) from operation `o`, up to the two handle checks.
Enter(o, s) ==
    /\ wrote' = <<>> /\ reads' = 0 /\ flushes' = 0 /\ lastLine' = <<>>
    /\ seen' = <<stdin, stdout>>
    /\ UNCHANGED <<ioFault, sawEof>>
    /\ LET e == HandleCheck(stdin, stdout)
       IN  IF e # ""
           THEN /\ Return(o, Err(e))
                /\ UNCHANGED calls
           ELSE /\ pc' = "write_cmd"
                /\ sql' = s
                /\ op' = o
                /\ calls' = calls + 1
                /\ output' = <<>>
                /\ found_marker' = FALSE
                /\ UNCHANGED <<result, allOk, panicMsg, lastOp>>
    /\ UNCHANGED <<libVars, sessionVars, procVars, dropVars>>

\* A public operation `o` is called and makes its first execute(s). A caller
\* makes no further call on a session whose pipes have failed it.
Call(o, s) ==
    /\ Alive /\ pc = "idle" /\ calls < MaxCalls
    /\ ioFault = "" /\ ~sawEof
    /\ Enter(o, s)
    /\ UNCHANGED number

Execute == \E s \in Commands : Call("execute", s)

\* Sqlite3Process::enable_wal_mode
EnableWalMode == Call("enable_wal_mode", WalStmt)

\* Sqlite3Process::disable_wal_checkpointing
DisableWalCheckpointing == Call("disable_wal_checkpointing", NoCheckpointStmt)

\* Sqlite3Process::create_dummy_data, up to its first execute.
CreateDummyData == Call("create_dummy_data", CreateTableStmt)

\* The positions of execute at which it flushes the child's input.
FlushSteps == {"flush_cmd", "flush_marker"}

\* Outcomes of a write to the child's input pipe: it fails once the child is
\* gone, and may fail while it runs.
WriteOutcomes == IF procState = "running" THEN BOOLEAN ELSE {FALSE}

\* IoStep with the `?` left out: the error of the step is dropped and the
\* call goes on to the next step.
IoStepSwallow(at, line, next, msg, outcomes) ==
    /\ pc = at
    /\ \E ok \in outcomes :
        /\ pc' = next
        /\ stdinPipe' = IF ok THEN stdinPipe \o line ELSE stdinPipe
        /\ wrote' = IF ok THEN wrote \o line ELSE wrote
        /\ ioFault' = IF ok THEN ioFault ELSE at
        /\ flushes' = IF ok /\ at \in FlushSteps THEN flushes + 1 ELSE flushes
    /\ UNCHANGED <<number, lastOp, table, hist, libVars, sessionVars, sql, output, found_marker, result, allOk, op, panicMsg,
                   calls, reads, seen, lastLine, sawEof, procState, echo, stdoutPipe,
                   segment, lastSeg, markers, collided, dropVars>>

\* One write or flush step of execute at position `at`: on success `line`
\* (if any) goes down the pipe and the call moves to `next`; on failure the
\* call returns Err(msg) at once.
IoStep(at, line, next, msg, outcomes) ==
    /\ pc = at
    /\ \E ok \in outcomes :
        IF ok
        THEN /\ pc' = next
             /\ stdinPipe' = stdinPipe \o line
             /\ wrote' = wrote \o line
             /\ flushes' = IF at \in FlushSteps THEN flushes + 1 ELSE flushes
             /\ UNCHANGED <<sql, output, found_marker, result, ioFault, allOk, op,
                            panicMsg, lastOp>>
        ELSE /\ ioFault' = at
             /\ Return(op, Err(msg))
             /\ UNCHANGED <<stdinPipe, wrote, flushes>>
    /\ UNCHANGED <<number, table, hist, libVars, sessionVars, calls, reads, seen, lastLine, sawEof, procState, echo,
                   stdoutPipe, segment, lastSeg, markers, collided, dropVars>>

WriteCmd == IoStep("write_cmd", <<Writeln(sql)>>, "flush_cmd", "Failed to write", WriteOutcomes)
FlushCmd == IoStep("flush_cmd", <<>>, "write_marker", "Failed to flush", BOOLEAN)
\* WriteMarker with the second flush left out.
WriteMarkerNoFlush ==
    IoStep("write_marker", <<Writeln(SentinelStmt)>>, "read",
           "Failed to write marker", WriteOutcomes)

WriteMarker ==
    IoStep("write_marker", <<Writeln(SentinelStmt)>>, "flush_marker",
           "Failed to write marker", WriteOutcomes)
FlushMarker == IoStep("flush_marker", <<>>, "read", "Failed to flush", BOOLEAN)

\* OnLine ending the read on the end-marker line alone, and keeping any other
\* line that holds the marker text.
OnLineWholeMarker(line, out) ==
    IF line = MarkerLine
    THEN [found |-> TRUE, output |-> out]
    ELSE IF ~Contains(line, SelectMarker)
         THEN [found |-> FALSE, output |-> out \o line]
         ELSE [found |-> FALSE, output |-> out]

\* OnLine with the line pushed before the marker test.
OnLineKeepsMarker(line, out) ==
    IF Contains(line, MARKER_END)
    THEN [found |-> TRUE, output |-> out \o line]
    ELSE [found |-> FALSE, output |-> out \o line]

\* The body of the read loop for one line that was read: the new values of
\* found_marker and output.
OnLine(line, out) ==
    IF Contains(line, MARKER_END)
    THEN [found |-> TRUE, output |-> out]
    ELSE IF ~Contains(line, SelectMarker)
         THEN [found |-> FALSE, output |-> out \o line]
         ELSE [found |-> FALSE, output |-> out]

\* read_line returned a line.
ReadLine ==
    /\ pc = "read" /\ stdoutPipe # <<>>
    /\ LET r == OnLine(Head(stdoutPipe), output)
       IN  /\ found_marker' = r.found
           /\ output' = r.output
           /\ pc' = IF r.found THEN "finish" ELSE "read"
    /\ stdoutPipe' = Tail(stdoutPipe)
    /\ lastLine' = Head(stdoutPipe)
    /\ reads' = reads + 1
    /\ UNCHANGED <<number, flushes, lastOp, table, hist, libVars, sessionVars, sql, result, calls, wrote, ioFault, seen, allOk, sawEof, op,
                   procState, echo, stdinPipe, segment, lastSeg, markers, collided,
                   dropVars, panicMsg>>

\* read_line returned Ok(0): the child closed its output and nothing is left.
ReadEof ==
    /\ pc = "read" /\ stdoutPipe = <<>> /\ procState # "running"
    /\ pc' = "finish"
    /\ sawEof' = TRUE
    /\ reads' = reads + 1
    /\ UNCHANGED <<number, flushes, lastOp, libVars, sessionVars, sql, output, found_marker, result, calls, wrote,
                   ioFault, seen, lastLine, allOk, op, procVars, dropVars, panicMsg>>

\* read_line returned Err (the line read is not UTF-8, say).
ReadErr ==
    /\ pc = "read"
    /\ ioFault' = "read"
    /\ Return(op, Err("Failed to read"))
    /\ stdoutPipe' = IF stdoutPipe = <<>> THEN <<>> ELSE Tail(stdoutPipe)
    /\ reads' = reads + 1
    /\ UNCHANGED <<number, flushes, table, hist, libVars, sessionVars, calls, wrote, seen, lastLine, sawEof, procState, echo,
                   stdinPipe,
                   segment, lastSeg, markers, collided, dropVars>>

\* FinishResult without the found_marker test.
FinishResultPartial(found, out) == Ok(out)

\* What execute returns once the loop is left.
FinishResult(found, out) ==
    IF ~found THEN Err("Failed to read complete output") ELSE Ok(out)

Finish ==
    /\ pc = "finish"
    /\ Return(op, FinishResult(found_marker, output))
    /\ UNCHANGED <<number, flushes, libVars, sessionVars, calls, wrote, reads, ioFault, seen, lastLine, sawEof,
                   procVars, dropVars>>

\* The head of the `for number in 1..1000` loop of create_dummy_data, reached
\* when the execute before it has returned Ok: the next insert, or the end of
\* the operation. `number` is one below DummyFirst until the loop is entered.
DummyNext ==
    /\ pc = "next_stmt"
    /\ LET next == number + 1
       IN  IF next < DummyEnd
           THEN /\ number' = next
                /\ Enter(op, InsertStmt(next))
           ELSE /\ pc' = "idle"
                /\ op' = "none"
                /\ UNCHANGED <<sessionVars, sql, output, found_marker, result, calls,
                               wrote, reads, ioFault, seen, lastLine, allOk, sawEof,
                               number, flushes, lastOp, procVars, dropVars, libVars,
                               panicMsg>>

----------------------------------------------------------------------------
(* The sqlite3 child process *)

HasMarker(lines) == \E i \in 1..Len(lines) : Contains(lines[i], MARKER_END)

Exit ==
    /\ procState' \in {"exited_ok", "exited_err"}
    /\ stdinPipe' = <<>>

\* The child reads one line of its input and acts on it.
ProcConsume ==
    /\ procState = "running" /\ stdinPipe # <<>>
    /\ LET line == Head(stdinPipe)
           stmt == SubSeq(line, 1, Len(line) - 1)
           echoed == IF echo THEN <<line>> ELSE <<>>
       IN  CASE stmt = SentinelStmt ->
                  /\ stdoutPipe' = stdoutPipe \o echoed \o <<MarkerLine>>
                  /\ lastSeg' = segment \o echoed
                  /\ segment' = <<>>
                  /\ markers' = markers + 1
                  /\ collided' = (collided \/ HasMarker(echoed))
                  /\ stdinPipe' = Tail(stdinPipe)
                  /\ UNCHANGED <<procState, echo>>
                  /\ UNCHANGED <<table, hist>>
             [] stmt = ExitStmt ->
                  /\ Exit
                  /\ UNCHANGED <<echo, stdoutPipe, segment, lastSeg, markers, collided,
                                 table, hist>>
             [] stmt = EchoOnStmt ->
                  /\ echo' = TRUE
                  /\ stdoutPipe' = stdoutPipe \o echoed
                  /\ segment' = segment \o echoed
                  /\ stdinPipe' = Tail(stdinPipe)
                  /\ hist' = Append(hist, Ran(<<>>, TRUE))
                  /\ UNCHANGED <<procState, lastSeg, markers, collided, table>>
             [] stmt = CreateTableStmt ->
                  /\ table' = CreateTable(table)
                  /\ UNCHANGED hist
                  /\ stdoutPipe' = stdoutPipe \o echoed
                  /\ segment' = segment \o echoed
                  /\ stdinPipe' = Tail(stdinPipe)
                  /\ UNCHANGED <<procState, echo, lastSeg, markers, collided>>
             [] IsInsert(stmt) ->
                  /\ table' = InsertValue(table, InsertedValue(stmt))
                  /\ UNCHANGED hist
                  /\ stdoutPipe' = stdoutPipe \o echoed
                  /\ segment' = segment \o echoed
                  /\ stdinPipe' = Tail(stdinPipe)
                  /\ UNCHANGED <<procState, echo, lastSeg, markers, collided>>
             [] OTHER ->
                  \E out \in Outputs :
                      /\ stdoutPipe' = stdoutPipe \o echoed \o out
                      /\ segment' = segment \o echoed \o out
                      /\ collided' = (collided \/ HasMarker(out))
                      /\ stdinPipe' = Tail(stdinPipe)
                      /\ hist' = Append(hist, Ran(out, TRUE))
                      /\ UNCHANGED <<procState, echo, lastSeg, markers, table>>
    /\ UNCHANGED <<libVars, sessionVars, execVars, dropVars, panicMsg>>

\* The child ends on its own (a crash, or end of input on a closed pipe).
ProcExit ==
    /\ procState = "running"
    /\ Exit
    /\ UNCHANGED <<table, hist, libVars, sessionVars, execVars, echo, stdoutPipe, segment, lastSeg,
                   markers, collided, dropVars, panicMsg>>


----------------------------------------------------------------------------
(* Drop for Sqlite3Process *)

TimeoutSecs == 60
SleepMillis == 100
Timeout == TimeoutSecs * 1000
DbPath == "test.db"
HungPanic == <<"sqlite3 process hung for ", DbPath>>

\* Readings of start.elapsed(), in milliseconds, that the poll loop is
\* followed through: the start, one sleep, and both sides of the ceiling.
ElapsedSamples == {0, SleepMillis, Timeout, Timeout + 1, Timeout + 1000}

\* is_timed_out with the ceiling a second late.
is_timed_out_late(e, timeout) == e > timeout + 1000

\* is_timed_out with the ceiling itself counted as timed out.
is_timed_out_at(e, timeout) == e >= timeout

\* is_timed_out
is_timed_out(e, timeout) == e > timeout

\* should_log_error without the test of the captured stderr.
should_log_failure(success, stderr_empty) == ~success

\* should_log_error
should_log_error(success, stderr_empty) == ~success /\ ~stderr_empty

\* The owning scope is left, by return or by the unwinding of a panic, and
\* the session is dropped.
ScopeExit ==
    /\ newResult = "ok" /\ dropPc = "none" /\ pc = "idle"
    /\ dropPc' = "exit"
    /\ dropRuns' = dropRuns + 1
    /\ exitWay' = IF panicMsg = <<>> THEN "return" ELSE "unwind"
    /\ stateAtRun' = procState
    /\ killsThisRun' = 0
    \* what the scope observed of its calls goes out of scope with it
    /\ result' = NoResult /\ calls' = 0 /\ wrote' = <<>> /\ reads' = 0
    /\ ioFault' = "" /\ seen' = <<"Some", "Some">> /\ lastLine' = <<>>
    /\ allOk' = TRUE /\ sawEof' = FALSE
    /\ segment' = <<>> /\ lastSeg' = <<>> /\ markers' = 0 /\ collided' = FALSE
    /\ hist' = <<>> /\ flushes' = 0 /\ lastOp' = "none"
    /\ steps' = <<>> /\ sleptAt' = -1
    /\ UNCHANGED <<number, table, libVars, sessionVars, pc, sql, output, found_marker, op, procState, echo,
                   stdinPipe, stdoutPipe, stderr_output, elapsed, polled, kills,
                   logged, panicMsg>>

\* drop is run once more on a session whose shutdown has already finished.
DropAgain ==
    /\ dropPc \in {"returned", "aborted"} /\ dropRuns < MaxDropRuns
    /\ dropPc' = "exit"
    /\ dropRuns' = dropRuns + 1
    /\ stateAtRun' = procState
    /\ killsThisRun' = 0
    /\ steps' = <<>> /\ sleptAt' = -1
    /\ UNCHANGED <<libVars, sessionVars, execVars, procVars, stderr_output, elapsed, polled,
                   kills, logged, panicMsg, exitWay>>

\* DropExit with the error of the write returned from drop.
DropExitReturnsOnErr ==
    /\ dropPc = "exit"
    /\ IF stdin = "Some"
       THEN \E ok \in WriteOutcomes :
               /\ stdinPipe' = IF ok THEN Append(stdinPipe, Writeln(ExitStmt)) ELSE stdinPipe
               /\ steps' = Append(steps, IF ok THEN "exit:ok" ELSE "exit:err")
               /\ dropPc' = IF ok THEN "drain" ELSE "returned"
       ELSE /\ UNCHANGED stdinPipe
            /\ steps' = Append(steps, "exit:skip")
            /\ dropPc' = "drain"
    /\ UNCHANGED <<table, hist, sleptAt, libVars, sessionVars, execVars, procState, echo,
                   stdoutPipe, segment, lastSeg, markers, collided, stderr_output,
                   elapsed, polled, kills, killsThisRun, logged, dropRuns, exitWay,
                   stateAtRun, panicMsg>>

\* Step 1: `.exit` is written and flushed if stdin is held; errors are dropped.
DropExit ==
    /\ dropPc = "exit"
    /\ IF stdin = "Some"
       THEN \E ok \in WriteOutcomes :
               /\ stdinPipe' = IF ok THEN Append(stdinPipe, Writeln(ExitStmt)) ELSE stdinPipe
               /\ steps' = Append(steps, IF ok THEN "exit:ok" ELSE "exit:err")
       ELSE /\ UNCHANGED stdinPipe
            /\ steps' = Append(steps, "exit:skip")
    /\ dropPc' = "drain"
    /\ UNCHANGED <<table, hist, sleptAt, libVars, sessionVars, execVars, procState, echo, stdoutPipe, segment, lastSeg,
                   markers, collided, stderr_output, elapsed, polled, kills,
                   killsThisRun, logged, dropRuns, exitWay, stateAtRun, panicMsg>>

\* Whether stderr.read_to_end can return: the pipe reaches end of stream only
\* when the child has ended.
DrainReturns(state) == state # "running"

\* Step 2: stderr is taken and read to its end if it is held, and whatever
\* was read before an error is kept; then Instant::now().
DropDrain ==
    /\ dropPc = "drain"
    /\ IF stderr = "Some"
       THEN /\ DrainReturns(procState)
            /\ stderr' = "None"
            /\ stderr_output' \in {"", "text"}
            /\ \E ok \in BOOLEAN :
                  steps' = steps \o <<IF ok THEN "drain:ok" ELSE "drain:err", "clock">>
       ELSE /\ stderr_output' = ""
            /\ UNCHANGED stderr
            /\ steps' = steps \o <<"drain:skip", "clock">>
    /\ elapsed' = 0
    /\ dropPc' = IF child = "Some" THEN "poll" ELSE "returned"
    /\ UNCHANGED <<sleptAt, libVars, child, stdin, stdout, newResult, spawned, execVars, procVars, polled,
                   kills, killsThisRun, logged, dropRuns, exitWay, stateAtRun, panicMsg>>

\* Results child.try_wait() can give for a child in `state`.
PollOutcomes(state) ==
    IF state = "running" THEN {"none", "err"} ELSE {"exited", "err"}

\* Step 3: child.try_wait()
DropPoll ==
    /\ dropPc = "poll"
    /\ polled' \in PollOutcomes(procState)
    /\ dropPc' = "polled"
    /\ steps' = IF Contains(steps, <<"poll">>) THEN steps ELSE Append(steps, "poll")
    /\ UNCHANGED <<sleptAt, libVars, sessionVars, execVars, procVars, stderr_output, elapsed, kills,
                   killsThisRun, logged, dropRuns, exitWay, stateAtRun, panicMsg>>

\* Ok(Some(status)): warn if should_log_error, return.
DropExited ==
    /\ dropPc = "polled" /\ polled = "exited"
    /\ logged' = should_log_error(procState = "exited_ok", stderr_output = "")
    /\ dropPc' = "returned"
    /\ UNCHANGED <<sleptAt, steps, libVars, sessionVars, execVars, procVars, stderr_output, elapsed, polled,
                   kills, killsThisRun, dropRuns, exitWay, stateAtRun, panicMsg>>

\* OnRunning with no ceiling: a child found running is killed at once.
OnRunningKills(e) == "kill"

\* The branch of the Ok(None) arm: "kill" past the ceiling, else "sleep".
OnRunning(e) == IF is_timed_out(e, Timeout) THEN "kill" ELSE "sleep"

\* Ok(None) within the ceiling: thread::sleep, after which the clock reads
\* at least the length of the sleep more.
DropSleep ==
    /\ dropPc = "polled" /\ polled = "none"
    /\ OnRunning(elapsed) = "sleep"
    /\ elapsed' \in {t \in ElapsedSamples : t >= elapsed + SleepMillis}
    /\ sleptAt' = elapsed
    /\ dropPc' = "poll"
    /\ UNCHANGED <<steps, libVars, sessionVars, execVars, procVars, stderr_output, polled, kills,
                   killsThisRun, logged, dropRuns, exitWay, stateAtRun, panicMsg>>

\* Kill with the signal never sent.
KillIgnored ==
    /\ UNCHANGED <<procState, stdinPipe>>
    /\ kills' = kills + 1
    /\ killsThisRun' = killsThisRun + 1

\* child.kill(): a running child is killed; one that has ended is left as it is.
Kill ==
    /\ procState' = IF procState = "running" THEN "killed" ELSE procState
    /\ stdinPipe' = IF procState = "running" THEN <<>> ELSE stdinPipe
    /\ kills' = kills + 1
    /\ killsThisRun' = killsThisRun + 1

\* Ok(None) past the ceiling: child.kill() ...
DropKillHung ==
    /\ dropPc = "polled" /\ polled = "none"
    /\ OnRunning(elapsed) = "kill"
    /\ Kill
    /\ dropPc' = "panic"
    /\ UNCHANGED <<table, hist, sleptAt, steps, libVars, sessionVars, execVars, echo, stdoutPipe, segment, lastSeg, markers,
                   collided, stderr_output, elapsed, polled, logged, dropRuns, exitWay,
                   stateAtRun, panicMsg>>

\* ... and then panic!("sqlite3 process hung for {db_path}").
DropPanic ==
    /\ dropPc = "panic"
    /\ panicMsg' = HungPanic
    /\ dropPc' = "aborted"
    /\ UNCHANGED <<sleptAt, steps, libVars, sessionVars, execVars, procVars, dropRuns, stderr_output, elapsed,
                   polled, kills, killsThisRun, logged, exitWay, stateAtRun>>

\* DropQueryErr going round the loop once more after the kill.
DropQueryErrRetries ==
    /\ dropPc = "polled" /\ polled = "err"
    /\ Kill
    /\ dropPc' = "poll"
    /\ UNCHANGED <<table, hist, sleptAt, steps, libVars, sessionVars, execVars, echo,
                   stdoutPipe, segment, lastSeg, markers, collided, stderr_output,
                   elapsed, polled, logged, dropRuns, exitWay, stateAtRun, panicMsg>>

\* DropQueryErr escalating to the panic of the timeout arm.
DropQueryErrPanics ==
    /\ dropPc = "polled" /\ polled = "err"
    /\ Kill
    /\ dropPc' = "panic"
    /\ UNCHANGED <<table, hist, sleptAt, steps, libVars, sessionVars, execVars, echo, stdoutPipe, segment, lastSeg, markers,
                   collided, stderr_output, elapsed, polled, logged, dropRuns, exitWay,
                   stateAtRun, panicMsg>>

\* Err(e): child.kill(), return.
DropQueryErr ==
    /\ dropPc = "polled" /\ polled = "err"
    /\ Kill
    /\ dropPc' = "returned"
    /\ UNCHANGED <<table, hist, sleptAt, steps, libVars, sessionVars, execVars, echo, stdoutPipe, segment, lastSeg, markers,
                   collided, stderr_output, elapsed, polled, logged, dropRuns, exitWay,
                   stateAtRun, panicMsg>>

----------------------------------------------------------------------------
(* The fixture helpers of lib.rs, on one rusqlite connection *)

\* row_count and word_count arguments the helpers are called with, and the
\* rows the table is followed up to.
MaxRows == 2
MaxWords == 2
MaxNotes == 2

\* Two of the 58 entries of WORDS.
WORDS == <<"Cras", "Fusce">>

\* Length of the Rust range lo..hi, which excludes hi.
RangeLenInclusive(lo, hi) == IF hi >= lo THEN hi - lo + 1 ELSE 0

RangeLen(lo, hi) == IF hi > lo THEN hi - lo ELSE 0

\* fastrand::usize(..n): the values it can return; none when the range is
\* empty, where it panics.
RandBelow(n) == 0..(n - 1)

\* The notes of exactly k words, each followed by one space.
RECURSIVE NotesOf(_)
NotesOf(k) ==
    IF k = 0 THEN {<<>>}
    ELSE {note \o <<WORDS[i], " ">> : note \in NotesOf(k - 1), i \in 1..Len(WORDS)}

\* create_note: the strings it can return; none when it panics.
NotesFor ==
    [word_count \in 0..MaxWords |->
        UNION {NotesOf(RangeLen(0, words_for_note)) : words_for_note \in RandBelow(word_count)}]

create_note(word_count) == NotesFor[word_count]

RECURSIVE MaxId(_)
MaxId(rows) ==
    IF rows = <<>> THEN 0
    ELSE LET m == MaxId(Tail(rows))
         IN  IF Head(rows).id > m THEN Head(rows).id ELSE m

\* The rowid SQLite gives a row inserted without one into a table whose key
\* is INTEGER PRIMARY KEY: one more than the largest in the table.
NextRowid(rows) == MaxId(rows) + 1

InsertRow(rows, text) == Append(rows, [id |-> NextRowid(rows), text |-> text])

RECURSIVE InsertAll(_, _)
InsertAll(rows, texts) ==
    IF texts = <<>> THEN rows ELSE InsertAll(InsertRow(rows, Head(texts)), Tail(texts))

Ids(rows) == {rows[i].id : i \in 1..Len(rows)}

LibRet(o, k, id) == [op |-> o, kind |-> k, id |-> id]


\* The statement of init_test_db at which the database reports an error.
InitFaults == {"none", "create", "insert", "commit", "count"}

\* row_id arguments: the ids in the table, and the id after the largest.
RowIds == 1..NextRowid(notes)

\* A thread that has panicked in a helper calls no other.
LibAlive == libRet.kind # "panic"

\* init_test_db
InitTestDb ==
    /\ LibAlive
    /\ IF hasNotes
       THEN /\ libRet' = LibRet("init", "err", 0)
            /\ UNCHANGED <<hasNotes, notes, inTxn, lastRowid, initRows, inserted, noteRet>>
       ELSE
       \E row_count \in 0..MaxRows, word_count \in 0..MaxWords, fault \in InitFaults :
        IF fault = "create"
        THEN /\ libRet' = LibRet("init", "err", 0)
             /\ UNCHANGED <<hasNotes, notes, inTxn, lastRowid, initRows, inserted, noteRet>>
        ELSE /\ hasNotes' = TRUE
             /\ UNCHANGED inserted
             /\ IF RangeLen(0, row_count) > 0 /\ create_note(word_count) = {}
                THEN /\ libRet' = LibRet("init", "panic", 0)
                     /\ noteRet' = NoteRet("panic", word_count, <<>>)
                     /\ inTxn' = TRUE
                     /\ UNCHANGED <<notes, lastRowid, initRows>>
                ELSE \E done \in 0..RangeLen(0, row_count) :
                     LET made == IF fault = "insert" THEN done + 1 ELSE done
                     IN
                     \E texts \in [1..made -> create_note(word_count)] :
                        /\ (fault = "insert") => done < RangeLen(0, row_count)
                        /\ (fault # "insert") => done = RangeLen(0, row_count)
                        /\ notes' = InsertAll(<<>>, SubSeq(texts, 1, done))
                        /\ noteRet' = IF made > 0
                                      THEN NoteRet("ok", word_count, texts[made])
                                      ELSE noteRet
                        /\ lastRowid' = IF done > 0 THEN MaxId(notes') ELSE lastRowid
                        /\ inTxn' = (fault \in {"insert", "commit"})
                        /\ libRet' = LibRet("init", IF fault = "none" THEN "ok" ELSE "err", 0)
                        /\ initRows' = IF fault = "none" THEN row_count ELSE initRows
    /\ UNCHANGED <<sessionVars, execVars, procVars, dropVars, panicMsg>>

\* insert_test_db
InsertTestDb ==
    /\ LibAlive /\ Len(notes) < MaxNotes
    /\ \E word_count \in 0..MaxWords, fails \in BOOLEAN :
        IF create_note(word_count) = {}
        THEN /\ libRet' = LibRet("insert", "panic", 0)
             /\ noteRet' = NoteRet("panic", word_count, <<>>)
             /\ UNCHANGED <<hasNotes, notes, inTxn, lastRowid, initRows, inserted>>
        ELSE \E note \in create_note(word_count) :
             /\ noteRet' = NoteRet("ok", word_count, note)
             /\ IF ~hasNotes \/ fails
                THEN /\ libRet' = LibRet("insert", "err", 0)
                     /\ UNCHANGED <<hasNotes, notes, inTxn, lastRowid, initRows, inserted>>
                ELSE /\ notes' = InsertRow(notes, note)
                     /\ lastRowid' = NextRowid(notes)
                     /\ libRet' = LibRet("insert", "ok", lastRowid')
                     /\ inserted' = IF initRows >= 0 THEN inserted + 1 ELSE inserted
                     /\ UNCHANGED <<hasNotes, inTxn, initRows>>
    /\ UNCHANGED <<sessionVars, execVars, procVars, dropVars, panicMsg>>

\* UPDATE notes SET text = note WHERE id = row_id
SetText(rows, row_id, note) ==
    [i \in 1..Len(rows) |->
        IF rows[i].id = row_id THEN [rows[i] EXCEPT !.text = note] ELSE rows[i]]

\* update_test_db
UpdateTestDb ==
    /\ LibAlive
    /\ \E word_count \in 0..MaxWords, fails \in BOOLEAN :
        IF create_note(word_count) = {}
        THEN /\ libRet' = LibRet("update", "panic", 0)
             /\ noteRet' = NoteRet("panic", word_count, <<>>)
             /\ UNCHANGED notes
        ELSE \E note \in create_note(word_count) :
             /\ noteRet' = NoteRet("ok", word_count, note)
             /\ IF ~hasNotes \/ fails
                THEN /\ libRet' = LibRet("update", "err", 0)
                     /\ UNCHANGED notes
                ELSE \E row_id \in RowIds :
                        /\ notes' = SetText(notes, row_id, note)
                        /\ libRet' = LibRet("update", "ok", 0)
    /\ UNCHANGED <<hasNotes, inTxn, lastRowid, initRows, inserted>>
    /\ UNCHANGED <<sessionVars, execVars, procVars, dropVars, panicMsg>>

\* read_row: an error when the table or the row is missing.
ReadRow ==
    /\ LibAlive
    /\ \E row_id \in RowIds, fails \in BOOLEAN :
        libRet' = LibRet("read",
                         IF hasNotes /\ row_id \in Ids(notes) /\ ~fails THEN "ok" ELSE "err",
                         0)
    /\ UNCHANGED <<hasNotes, notes, inTxn, lastRowid, initRows, inserted, noteRet>>
    /\ UNCHANGED <<sessionVars, execVars, procVars, dropVars, panicMsg>>

----------------------------------------------------------------------------
(* Specifications *)

ExecStep ==
    \/ WriteCmd
    \/ FlushCmd
    \/ WriteMarker
    \/ FlushMarker
    \/ ReadLine
    \/ ReadEof
    \/ ReadErr
    \/ Finish

DropStep ==
    \/ DropExit
    \/ DropDrain
    \/ DropPoll
    \/ DropExited
    \/ DropSleep
    \/ DropKillHung
    \/ DropPanic
    \/ DropQueryErr

\* The whole life of a session: construction, calls, the end of the owning
\* scope and the shutdown.
Next ==
    \/ New
    \/ TakeStdin
    \/ TakeStdout
    \/ TakeStderr
    \/ (calls < MaxLifeCalls /\ Execute)
    \/ (calls < MaxLifeCalls /\ EnableWalMode)
    \/ (calls < MaxLifeCalls /\ DisableWalCheckpointing)
    \/ ExecStep
    \/ ProcConsume
    \/ ProcExit
    \/ ScopeExit
    \/ DropAgain
    \/ DropStep

Spec == Init /\ [][Next]_vars

\* The session in use: construction and execute calls against the child,
\* before the owning scope is left.
NextExec ==
    \/ New
    \/ TakeStdin
    \/ TakeStdout
    \/ Execute
    \/ ExecStep
    \/ ProcConsume
    \/ ProcExit

SpecExec == Init /\ [][NextExec]_vars

\* create_dummy_data and the two PRAGMA operations, each as the first call on
\* a session (as test_create_dummy_data makes it), on a database file that is
\* new or that holds table `test` already.
InitDummy ==
    \E db \in {NewDb, UsedDb} :
        /\ table = db
        /\ child = "None" /\ stdin = "None" /\ stdout = "None" /\ stderr = "None"
        /\ newResult = "none"
        /\ spawned = [proc |-> FALSE, stdin |-> FALSE, stdout |-> FALSE, stderr |-> FALSE]
        /\ pc = "idle" /\ sql = <<>> /\ output = <<>> /\ found_marker = FALSE
        /\ result = NoResult /\ calls = 0 /\ wrote = <<>> /\ reads = 0
        /\ ioFault = "" /\ seen = <<"Some", "Some">> /\ lastLine = <<>>
        /\ allOk = TRUE /\ sawEof = FALSE /\ op = "none"
        /\ procState = "none" /\ echo = FALSE
        /\ stdinPipe = <<>> /\ stdoutPipe = <<>>
        /\ segment = <<>> /\ lastSeg = <<>> /\ markers = 0 /\ collided = FALSE
        /\ dropPc = "none" /\ stderr_output = "" /\ elapsed = 0 /\ polled = "none"
        /\ kills = 0 /\ killsThisRun = 0 /\ logged = FALSE /\ panicMsg = <<>>
        /\ dropRuns = 0 /\ exitWay = "" /\ stateAtRun = "none"
        /\ number = 0 /\ flushes = 0 /\ lastOp = "none"
        /\ hist = <<>>
        /\ sleptAt = -1 /\ steps = <<>>
        /\ hasNotes = FALSE /\ notes = <<>> /\ inTxn = FALSE /\ lastRowid = 0
        /\ libRet = NoLibRet
        /\ initRows = -1 /\ inserted = 0
        /\ noteRet = NoNoteRet

NextDummy ==
    \/ New
    \/ (calls = 0 /\ EnableWalMode)
    \/ (calls = 0 /\ DisableWalCheckpointing)
    \/ (calls = 0 /\ CreateDummyData)
    \/ DummyNext
    \/ ExecStep
    \/ ProcConsume
    \/ ProcExit

SpecDummy == InitDummy /\ [][NextDummy]_vars

\* The fixture helpers called in any order on one connection.
NextLib ==
    \/ InitTestDb
    \/ InsertTestDb
    \/ UpdateTestDb
    \/ ReadRow

SpecLib == Init /\ [][NextLib]_vars

\* The thread that runs drop is not starved: a step of drop that can be taken
\* is taken. Nothing is assumed of the child, which may never act.
SpecFair == Spec /\ WF_vars(DropStep)

----------------------------------------------------------------------------
(* Properties of execute, checked under SpecExec *)

HandleErrors == {"stdin is not available", "stdout is not available"}

\* C1: as long as every call has returned Ok and the child has printed no
\* line holding MARKER_END other than its end markers, the k-th call returns
\* exactly the lines the child printed between its (k-1)-th and its k-th end
\* marker, in the order printed, and nothing of it holds the marker text.
C1_ExactOutput ==
    (pc = "idle" /\ result.kind = "ok" /\ allOk /\ ~collided)
        => /\ markers = calls
           /\ result.output = Flatten(lastSeg)
           /\ ~Contains(result.output, MARKER_END)

\* C1 witness: a second or later call returned two rows, the second row first.
C1_Witness ==
    /\ pc = "idle" /\ result.kind = "ok" /\ allOk /\ ~collided
    /\ calls >= 2 /\ markers = calls
    /\ result.output = Row2 \o Row1

\* C2: the echo of the sentinel statement does not end the read: a read loop
\* that has found its marker was ended by a line other than that echo.
C2_EchoIsDiscarded ==
    (pc = "finish" /\ found_marker) => lastLine # SentinelEcho

\* C7: a call whose read reached end of input returns the incomplete-output
\* error and none of the lines it had accumulated.
C7_EofIsError ==
    (pc = "idle" /\ sawEof)
        => result = Err("Failed to read complete output")

\* C7 witness: end of input came after a line had been read.
C7_Witness ==
    /\ pc = "idle" /\ sawEof /\ reads >= 2
    /\ result.kind = "err"

\* C8: a call fails at its first failing pipe operation and does nothing
\* after it: what it has written and read is what precedes the failing step,
\* and the error carries no output.
C8_FailFast ==
    ioFault # "" =>
        /\ pc = "idle"
        /\ result.kind = "err" /\ result.output = <<>>
        /\ ioFault = "write_cmd" =>
              result.msg = "Failed to write" /\ wrote = <<>> /\ reads = 0
        /\ ioFault = "flush_cmd" =>
              /\ result.msg = "Failed to flush" /\ reads = 0
              /\ Len(wrote) = 1 /\ wrote[1] # Writeln(SentinelStmt)
        /\ ioFault = "write_marker" =>
              /\ result.msg = "Failed to write marker" /\ reads = 0
              /\ Len(wrote) = 1 /\ wrote[1] # Writeln(SentinelStmt)
        /\ ioFault = "flush_marker" =>
              /\ result.msg = "Failed to flush" /\ reads = 0
              /\ Len(wrote) = 2 /\ wrote[2] = Writeln(SentinelStmt)
        /\ ioFault = "read" =>
              result.msg = "Failed to read" /\ Len(wrote) = 2

\* C8 witness: the write of the sentinel failed after the command had gone out.
C8_Witness ==
    /\ ioFault = "write_marker" /\ pc = "idle"
    /\ Len(wrote) = 1 /\ reads = 0 /\ result.kind = "err"

\* C9: a call that finds the stdin or the stdout field empty returns an error
\* and neither writes to the child nor reads from it.
C9_ConsumedHandleFails ==
    (seen[1] = "None" \/ seen[2] = "None")
        => /\ pc = "idle"
           /\ result.kind = "err" /\ result.msg \in HandleErrors
           /\ wrote = <<>> /\ reads = 0

\* C9 witness: after a call that succeeded, stdout was taken and the next call
\* failed on it.
C9_Witness ==
    /\ seen = <<"Some", "None">> /\ calls >= 1 /\ markers >= 1
    /\ result = Err("stdout is not available")

\* C16: a call writes the command and a line terminator, flushes, writes
\* SELECT 'MARKER_END'; and a line terminator, flushes, and only then reads:
\* a line is written only before the first read, the second line is the
\* sentinel, a flush follows each write, and a read is made only when two
\* lines have been written and two flushes have completed.
C16_HalfDuplex ==
    [][ /\ reads' > reads =>
              /\ flushes = 2 /\ Len(wrote) = 2 /\ wrote' = wrote /\ flushes' = flushes
              /\ wrote[1] = Writeln(sql)
              /\ wrote[2] = <<"SELECT '", "MARKER_END", "';", "\n">>
        /\ (wrote' # wrote /\ wrote' # <<>>) =>
              /\ reads = 0 /\ reads' = 0
              /\ Len(wrote') = Len(wrote) + 1 /\ Len(wrote') <= 2
              /\ flushes = Len(wrote) /\ flushes' = flushes
        /\ flushes' > flushes =>
              /\ reads = 0 /\ reads' = 0 /\ wrote' = wrote
              /\ flushes' = flushes + 1 /\ flushes' = Len(wrote) ]_vars

\* C16 witness: a call has written its two lines, flushed twice, read two
\* lines and found its marker.
C16_Witness ==
    /\ pc = "finish" /\ found_marker /\ reads = 2 /\ flushes = 2
    /\ wrote = <<Writeln(sql), Writeln(SentinelStmt)>>

\* The place of the first line of `lines` that holds the marker text.
FirstMarked(lines) ==
    CHOOSE i \in 1..Len(lines) :
        /\ Contains(lines[i], MARKER_END)
        /\ \A j \in 1..(i - 1) : ~Contains(lines[j], MARKER_END)

\* The command run k-th printed a line holding the marker text, and no
\* command before it did.
FirstCollisionAt(k) ==
    /\ k \in 1..Len(hist)
    /\ HasMarker(hist[k].out)
    /\ \A j \in 1..(k - 1) : ~HasMarker(hist[j].out)

\* C20: with no echo and no failed pipe operation, if the k-th command is the
\* first to print a line holding MARKER_END, every call so far has returned
\* Ok, the k-th with the lines before that line only; the call after it
\* returns the lines that followed that line, not its own command's output;
\* and each later call returns the output of the command before its own.
C20_CollisionShiftsResponses ==
    (pc = "idle" /\ calls >= 1 /\ ioFault = "" /\ ~sawEof /\ ~echo
        /\ seen = <<"Some", "Some">>)
    => \A k \in 1..Len(hist) :
          FirstCollisionAt(k) =>
             LET out == hist[k].out
                 at == FirstMarked(out)
                 rest == SubSeq(out, at + 1, Len(out))
             IN  /\ allOk /\ result.kind = "ok"
                 /\ calls = k => result.output = Flatten(SubSeq(out, 1, at - 1))
                 /\ (calls = k + 1 /\ ~HasMarker(rest)) => result.output = Flatten(rest)
                 /\ (calls >= k + 2 /\ ~HasMarker(rest)
                       /\ \A j \in (k + 1)..(calls - 1) : ~HasMarker(hist[j].out))
                    => /\ Len(hist) >= calls - 1
                       /\ result.output = Flatten(hist[calls - 1].out)

\* C20 witness: the first command printed the marker text and then a row, the
\* second printed one row and the third two; the third call returned the row
\* of the second command.
C20_Witness ==
    /\ pc = "idle" /\ calls = 3 /\ allOk /\ ~echo /\ Len(hist) = 3
    /\ hist[1].out = <<CollisionLine, Row2>>
    /\ hist[2].out = <<Row1>>
    /\ hist[3].out = <<Row1, Row2>>
    /\ result = Ok(Row1)

\* C10: when new returns Ok, the launch handed over all three pipe handles.
C10_AtomicConstruction ==
    newResult = "ok" => (spawned.stdin /\ spawned.stdout /\ spawned.stderr)


----------------------------------------------------------------------------
(* Properties of the shutdown, checked under Spec and SpecFair *)

Finished == dropPc \in {"returned", "aborted"}

\* C3: a shutdown that has started finishes, by return or by abort, whatever
\* handles the session holds and whatever the child does.
C3_ShutdownFinishes == (dropPc = "exit") ~> Finished

\* C4: when the shutdown has finished, by return or by abort, the child has
\* exited (with success or not) or has been killed; it is not running.
C4_NoLeak ==
    Finished => procState \in {"exited_ok", "exited_err", "killed"}

\* C4 witness: the exit-status query failed on a running child, which was
\* killed, and the shutdown returned.
C4_Witness ==
    /\ dropPc = "returned" /\ polled = "err"
    /\ stateAtRun = "running" /\ procState = "killed"

\* C5: a poll that finds the child running with more than 60 seconds elapsed is
\* followed by the kill and then by the panic that names the database path;
\* the shutdown does not return from there.
C5_TimeoutKillsThenAborts ==
    [][ /\ (dropPc = "polled" /\ polled = "none" /\ elapsed > 60 * 1000
              /\ dropPc' # dropPc)
           => (dropPc' = "panic" /\ kills' = kills + 1 /\ procState' # "running")
        /\ (dropPc = "panic" /\ dropPc' # dropPc)
           => /\ dropPc' = "aborted"
              /\ panicMsg' = HungPanic
              /\ Contains(panicMsg', <<DbPath>>) ]_vars

\* C5 witness: the shutdown aborted past the ceiling with the child killed.
C5_Witness ==
    /\ dropPc = "aborted" /\ panicMsg = HungPanic
    /\ elapsed > 60 * 1000 /\ procState = "killed" /\ killsThisRun = 1

C11_LogOnlyFailureWithStderr ==
    [][ /\ \A success \in BOOLEAN, stderr_empty \in BOOLEAN :
              should_log_error(success, stderr_empty)
                  <=> (success = FALSE /\ stderr_empty = FALSE)
        /\ (dropPc = "polled" /\ polled = "exited" /\ dropPc' # dropPc)
           => /\ logged' = (procState = "exited_err" /\ stderr_output # "")
              /\ dropPc' = "returned"
              /\ kills' = kills /\ panicMsg' = panicMsg ]_vars

\* C11 witness: the child exited with a failure, stderr had text, and the
\* shutdown logged the warning and returned.
C11_Witness ==
    /\ dropPc = "returned" /\ polled = "exited" /\ logged
    /\ procState = "exited_err" /\ stderr_output = "text" /\ killsThisRun = 0

\* C12: is_timed_out(elapsed, ceiling) is elapsed > ceiling, and a poll that
\* finds the child running at 60 seconds or less neither kills nor panics: it
\* sleeps at least 100 ms and polls again.
C12_CeilingIsExclusive ==
    [][ /\ \A e \in ElapsedSamples, c \in ElapsedSamples :
              is_timed_out(e, c) <=> (e > c)
        /\ (dropPc = "polled" /\ polled = "none" /\ elapsed <= 60 * 1000
              /\ dropPc' # dropPc)
           => /\ dropPc' = "poll"
              /\ kills' = kills /\ panicMsg' = panicMsg /\ procState' = procState
              /\ sleptAt' = elapsed
              /\ elapsed' >= elapsed + 100 ]_vars

\* C12 witness: a poll at exactly 60 seconds found the child running, and the
\* shutdown slept and is about to poll again with nothing killed.
C12_Witness ==
    /\ dropPc = "poll" /\ sleptAt = 60 * 1000 /\ elapsed > sleptAt
    /\ procState = "running" /\ killsThisRun = 0 /\ panicMsg = <<>>

----------------------------------------------------------------------------
(* Properties of the convenience operations, checked under SpecDummy *)

\* The child has run the first statement on table `test`, and every one it
\* has run so far succeeded.
AllSucceeded == table.ran > 0 /\ table.failed = 0

\* create_dummy_data has run to its end.
DummyDone ==
    lastOp = "create_dummy_data" /\ op = "none" /\ pc = "idle" /\ panicMsg = <<>>

\* C13: create_dummy_data makes one execute call per statement, the CREATE
\* TABLE first and then the inserts for 1, 2, ... in increasing order, each
\* with the value 'Hello, World! <index>'; it ends after the insert for 999,
\* and if every statement succeeded the table then holds 999 rows, row 1
\* with the value for index 1 (on the way there the row added last is the one
\* for its own position).
C13_DummyData ==
    /\ op = "create_dummy_data" =>
          /\ number \in 0..999
          /\ calls = number + 1
          /\ Len(wrote) <= 2
          /\ (wrote # <<>> /\ number = 0) =>
                wrote[1] = <<"CREATE TABLE test (id INTEGER PRIMARY KEY, value TEXT);", "\n">>
          /\ (wrote # <<>> /\ number > 0) =>
                wrote[1] = <<"INSERT INTO test (value) VALUES ('", "Hello, World! ",
                             ToString(number), "');", "\n">>
    /\ (AllSucceeded /\ table.count > 0) =>
          /\ table.last = <<"Hello, World! ", ToString(table.count)>>
          /\ table.first = <<"Hello, World! ", "1">>
    /\ DummyDone =>
          /\ number = 999 /\ calls = 1000 /\ result.kind = "ok"
          /\ AllSucceeded =>
                /\ table.count = 999 /\ table.ran = 1000
                /\ table.first = <<"Hello, World! ", "1">>
                /\ table.last = <<"Hello, World! ", "999">>

\* C13 witness: create_dummy_data has run to its end on a new database, whose
\* table holds 999 rows, the last with the value for index 999.
C13_Witness ==
    /\ DummyDone /\ AllSucceeded
    /\ table.count = 999
    /\ table.first = <<"Hello, World! ", "1">>
    /\ table.last = <<"Hello, World! ", "999">>

Wrappers == {"enable_wal_mode", "disable_wal_checkpointing", "create_dummy_data"}

\* C14: when an execute made by one of the three operations returns an error,
\* the operation panics there; from then on no call is made and nothing more
\* is written to the child, so that after a failure of statement i of
\* create_dummy_data the child has been sent no statement past i.
C14_WrappersFailFast ==
    /\ [](/\ (lastOp \in Wrappers /\ result.kind = "err")
              => (panicMsg = UnwrapPanic /\ pc = "idle" /\ op = "none")
          /\ lastOp = "create_dummy_data" => (calls = number + 1 /\ table.ran <= calls))
    /\ [][panicMsg # <<>> =>
            /\ calls' = calls /\ number' = number /\ wrote' = wrote
            /\ Len(stdinPipe') <= Len(stdinPipe)
            /\ panicMsg' = panicMsg]_vars

\* C14 witness: the insert for index 2 failed at the write of its sentinel,
\* create_dummy_data panicked, and the child has run the CREATE and two inserts.
C14_Witness ==
    /\ lastOp = "create_dummy_data" /\ panicMsg = UnwrapPanic
    /\ number = 2 /\ calls = 3 /\ ioFault = "write_marker"
    /\ table.ran = 3 /\ table.count = 2 /\ stdinPipe = <<>>

----------------------------------------------------------------------------
(* Properties of the fixture helpers, checked under SpecLib *)

\* C15: once init_test_db(row_count = n) has succeeded, the ids in `notes`
\* are 1..n plus one per successful insert_test_db since; each successful
\* insert_test_db adds one row and returns its id, which is one more than the
\* largest id before it (n + 1 for the first); update_test_db and read_row
\* leave the set of ids as it was.
C15_IdsAreDense ==
    /\ [](initRows >= 0 =>
            /\ Len(notes) = initRows + inserted
            /\ Ids(notes) = 1..(initRows + inserted)
            /\ ((libRet.op = "insert" /\ libRet.kind = "ok")
                  => libRet.id = initRows + inserted))
    /\ [][ /\ (libRet'.op = "init" /\ libRet'.kind = "ok")
              => (notes = <<>> /\ inserted' = 0 /\ Ids(notes') = 1..initRows')
           /\ (libRet'.op = "insert" /\ libRet'.kind = "ok")
              => /\ Len(notes') = Len(notes) + 1
                 /\ Ids(notes') = Ids(notes) \cup {libRet'.id}
                 /\ libRet'.id \notin Ids(notes)
                 /\ \A i \in Ids(notes) : i < libRet'.id
                 /\ (initRows >= 0 => libRet'.id = initRows + inserted + 1)
           /\ libRet'.op \in {"update", "read"}
              => (Ids(notes') = Ids(notes) /\ Len(notes') = Len(notes)) ]_vars

\* C15 witness: after init_test_db with one row, insert_test_db returned 2.
C15_Witness ==
    /\ initRows = 1 /\ inserted = 1
    /\ libRet = LibRet("insert", "ok", 2)
    /\ Ids(notes) = {1, 2}

ExitTags == {"exit:ok", "exit:err", "exit:skip"}
DrainTags == {"drain:ok", "drain:err", "drain:skip"}

\* C17: a shutdown run takes its steps in one order: the `.exit` write (made
\* only if stdin is held), then the drain of stderr (made only if stderr is
\* held), then the start of the clock, then the first poll; a write or a
\* drain that fails is followed by the same steps as one that succeeds, and
\* the run panics only from a poll past the ceiling.
C17_ShutdownOrder ==
    /\ [](/\ dropPc = "exit" => steps = <<>>
          /\ dropPc = "drain" => (Len(steps) = 1 /\ steps[1] \in ExitTags)
          /\ dropPc \in {"poll", "polled", "panic", "returned", "aborted"} =>
                /\ Len(steps) \in {3, 4}
                /\ steps[1] \in ExitTags /\ steps[2] \in DrainTags /\ steps[3] = "clock"
                /\ Len(steps) = 4 => steps[4] = "poll"
                /\ dropPc # "poll" => Len(steps) = 4
                /\ (steps[1] = "exit:skip") <=> (stdin = "None")
          /\ dropPc \in {"panic", "aborted"} => (polled = "none" /\ elapsed > 60 * 1000))
    /\ [][ /\ (dropPc = "exit" /\ dropPc' # dropPc) => dropPc' = "drain"
           /\ (dropPc = "drain" /\ dropPc' # dropPc) =>
                 /\ dropPc' = "poll" /\ elapsed' = 0 /\ polled' = polled
                 /\ (steps'[2] = "drain:skip") <=> (stderr = "None")
                 /\ stderr' = "None" ]_vars

\* C17 witness: the `.exit` write failed and the drain failed, and the run
\* went on to start the clock and poll.
C17_Witness ==
    /\ steps = <<"exit:err", "drain:err", "clock", "poll">>
    /\ dropPc = "polled" /\ dropRuns = 1

\* C18: when child.try_wait() returns an error the child is killed once and
\* drop returns: no panic, no further poll in that run, whatever the clock
\* reads.
C18_QueryErrorKillsAndReturns ==
    [][ /\ (dropPc = "polled" /\ polled = "err" /\ dropPc' # dropPc) =>
              /\ dropPc' = "returned"
              /\ kills' = kills + 1 /\ killsThisRun' = 1
              /\ procState' # "running"
              /\ panicMsg' = panicMsg /\ polled' = polled /\ elapsed' = elapsed
        /\ (dropPc = "returned" /\ dropRuns' = dropRuns) =>
              (dropPc' = "returned" /\ polled' = polled /\ kills' = kills) ]_vars

\* C18 witness: the query failed past the ceiling on a running child, which
\* was killed, and drop returned without a panic.
C18_Witness ==
    /\ dropPc = "returned" /\ polled = "err" /\ elapsed > 60 * 1000
    /\ stateAtRun = "running" /\ procState = "killed" /\ killsThisRun = 1
    /\ panicMsg = <<>> /\ dropRuns = 1

\* What the session has learnt of its child in the shutdown run in progress.
Binding ==
    IF dropPc \in {"none", "exit", "drain", "poll"} THEN "Running"
    ELSE IF polled = "exited" THEN "Exited"
    ELSE IF polled = "err" THEN "QueryFailed"
    ELSE IF killsThisRun > 0 THEN "Killed"
    ELSE "Running"

\* C19: before the shutdown no call kills or waits on the child or changes
\* the handle fields (only the caller's own Option::take does); in a shutdown
\* run the binding leaves Running only to stay where it went; the child is
\* killed only from a poll that found it running past the ceiling or from a
\* poll that failed, never after an observed exit.
C19_RunningUntilShutdown ==
    /\ [](/\ dropPc = "none" => (kills = 0 /\ polled = "none" /\ procState # "killed")
          /\ procState = "killed" => kills > 0)
    /\ [][ /\ (dropPc' = "none" /\ <<child, stdin, stdout, stderr>>' # <<child, stdin, stdout, stderr>>)
                 => (pc = "idle" /\ pc' = "idle" /\ UNCHANGED <<result, calls, wrote, reads>>)
           /\ (Binding # "Running" /\ dropRuns' = dropRuns) => Binding' = Binding
           /\ kills' # kills =>
                 /\ kills' = kills + 1
                 /\ dropPc = "polled"
                 /\ \/ (polled = "none" /\ elapsed > 60 * 1000)
                    \/ polled = "err" ]_vars

\* C19 witness: an execute call has failed on a read error, and the session
\* still holds all four handles of a running child that nothing has killed or
\* waited on.
C19_Witness ==
    /\ dropPc = "none" /\ pc = "idle" /\ result = Err("Failed to read")
    /\ child = "Some" /\ stdin = "Some" /\ stdout = "Some" /\ stderr = "Some"
    /\ procState = "running" /\ kills = 0 /\ polled = "none"

----------------------------------------------------------------------------
(* Properties of create_note, checked under SpecLib *)

\* Words of a note: each word is followed by one space.
NoteWords(note) == Len(note) \div 2

\* The note is a run of entries of WORDS, each followed by one space.
WordsAndSpaces(note) ==
    /\ Len(note) % 2 = 0
    /\ \A i \in 1..Len(note) :
          IF i % 2 = 1 THEN \E w \in 1..Len(WORDS) : note[i] = WORDS[w]
                       ELSE note[i] = " "

\* What the code does with word_count: a note it returns has fewer words than
\* word_count, never word_count of them.
NoteBelowWordCount ==
    noteRet.kind = "ok" =>
        /\ WordsAndSpaces(noteRet.note)
        /\ NoteWords(noteRet.note) < noteRet.word_count

\* C21: every call of create_note made by init_test_db, insert_test_db or
\* update_test_db, whatever word_count it is passed (0 and 1 included),
\* returns a note, of at most word_count words, each an entry of WORDS
\* followed by one space.
C21_NoteForEveryWordCount ==
    noteRet.kind # "none" =>
        /\ noteRet.kind = "ok"
        /\ WordsAndSpaces(noteRet.note)
        /\ NoteWords(noteRet.note) <= noteRet.word_count

====
